---- MODULE Spec2Model ----
(***************************************************************************)
(* The database objects of firecrest_wflow/_orm.py as a state machine.     *)
(*                                                                         *)
(*   Client |_ Code |_ CalcJob <-> Processing                              *)
(*                         |_ DataNode                                     *)
(*                                                                         *)
(* The state is the persisted content of the five tables the module        *)
(* declares.  One action is one unit of work of the ORM session (the       *)
(* object changes followed by their flush and commit): the rows it writes  *)
(* are written together, and a flush that violates a declared constraint   *)
(* (primary key, unique, NOT NULL, foreign key) raises IntegrityError and  *)
(* is rolled back, so the tables are left as they were.  The constraints   *)
(* are the ones the mapped columns declare; the database is taken to       *)
(* enforce every constraint that is declared.                              *)
(*                                                                         *)
(* Beside the tables the state holds what the objects keep in memory: the  *)
(* cached handle of a Client, the remote path derived for a CalcJob, the   *)
(* entities as Python objects with the primary keys the database has set,  *)
(* and the orchestrator workers that advance the statuses.  Each concern   *)
(* has its own specification, which leaves the rest of the state alone.    *)
(***************************************************************************)
EXTENDS Integers, Sequences, FiniteSets, TLC

VARIABLES
    clients,    \* table "client":         pk -> [label]
    codes,      \* table "code":           pk -> [label, client_pk]
    calcjobs,   \* table "calcjob":        pk -> [code_pk]
    statuses,   \* table "calcjob_status": pk -> [calcjob_pk, step, job_id, exception]
    datanodes,  \* table "data":           pk -> [creator_pk, attributes]
    last,       \* the last unit of work: what was asked and how it ended
    _client,    \* Client objects in memory: object -> the cached handle (<<>>: no attribute)
    attempts,   \* Client objects in memory: object -> constructions of a handle so far
    path_in,    \* the columns a remote path is derived from: [fsystem, work_dir, uuid]
    path_out,   \* str() of the remote path derived from path_in (<<>>: not derived yet)
    calcjob_uuid,  \* column uuid of table "calcjob": pk -> uuid (kept by SpecUuids only)
    uuid4_calls,   \* the calls of uuid4() so far
    objects,    \* the entities alive as Python objects: object -> [kind, pk]
    issued,     \* every primary key the database has set so far: <<kind, pk>>, in order
    workers     \* orchestrator workers: worker -> [pc, pk, seen], the status it works on

tables == <<clients, codes, calcjobs, statuses, datanodes>>
\* the state of the Python objects, outside the tables
handles == <<_client, attempts>>
paths == <<path_in, path_out>>
uuids == <<calcjob_uuid, uuid4_calls>>
entities == <<objects, issued>>
memory == <<handles, paths, uuids, entities, workers>>
vars == <<clients, codes, calcjobs, statuses, datanodes, last, memory>>

----------------------------------------------------------------------------
(* Bounds of the exploration. *)

MaxClients == 2
MaxCodes == 2
MaxCalcJobs == 2
MaxStatuses == 2
MaxDataNodes == 2
\* the calcjobs and the statuses whose updates are followed in Spec
MaxLifecycles == 1
\* random.choice(NAMES) is explored for the first MaxNameDraw names of the pool
MaxNameDraw == 1
\* Client objects held in memory, and constructions of a handle one of them may try
MaxInstances == 2
MaxAttempts == 3
\* entities alive as Python objects, and primary keys the database sets in all
MaxObjects == 3
MaxIssued == 3
\* orchestrator workers
MaxWorkers == 2

----------------------------------------------------------------------------
(* Values. *)

\* Python's None: an absent Optional value, an argument that was not given
None == "None"

\* NAMES: the pool a default label is drawn from
NAMES ==
    << "digital_dynamo", "futuristic_fusion", "optical_odyssey",
       "radiant_rocket", "super_sonic", "crystal_cruiser",
       "creative_cyber", "efficient_explorer", "virtual_venture",
       "nifty_navigator", "glorious_galaxy", "optimized_operations",
       "astonishing_adventure", "elegant_evolution", "smooth_symphony",
       "powerful_prodigy", "virtual_visionary", "sleek_sentinel",
       "energetic_explorer", "optimistic_odyssey", "fantastic_frontier",
       "digital_dominion", "efficient_evolution", "virtual_voyager",
       "nimble_navigator", "glorious_gateway", "optimized_operations",
       "astonishing_array", "elegant_enterprise", "sophisticated_symphony",
       "perfect_prodigy", "virtual_victory", "speedy_sentinel",
       "energetic_enterprise", "optimistic_optimizer", "futuristic_fortune",
       "dynamic_dynamo", "flawless_fusion", "optimal_odyssey",
       "radiant_realm", "superior_symphony", "crystal_crusader",
       "creative_computing", "efficient_exec", "virtual_vision",
       "nifty_network", "glorious_grid", "optimized_optimizer",
       "astonishing_accelerator", "elegant_explorer" >>

\* the elements of a tuple
Range(s) == {s[i] : i \in 1..Len(s)}

\* default=lambda: random.choice(NAMES): any element of the pool
random_choice(pool) ==
    {pool[i] : i \in 1..(IF MaxNameDraw < Len(pool) THEN MaxNameDraw ELSE Len(pool))}

\* labels a caller passes explicitly; the second one is also a name of the pool
Labels == {"a", NAMES[1]}

\* Enum("created", "uploading", "submitting", "running", "retrieving", "finalised")
StepOrder == <<"created", "uploading", "submitting", "running", "retrieving", "finalised">>
Steps == Range(StepOrder)

\* values an orchestrator writes to job_id and to exception
JobIds == {"job-1"}
Exceptions == {"error-1"}

----------------------------------------------------------------------------
(* Tables: a table is a function from the primary keys of its rows. *)

Put(rows, pk, row) ==
    [k \in DOMAIN rows \cup {pk} |-> IF k = pk THEN row ELSE rows[k]]

Drop(rows, pks) == [k \in DOMAIN rows \ pks |-> rows[k]]

\* the largest element of a non-empty set of numbers
Max(S) == CHOOSE m \in S : \A k \in S : k <= m

\* pk: "The primary key set by the database": the key that follows the largest
\* key of the table (the rule of an integer primary key without a sequence);
\* keys above max are outside the explored range
NewPks(rows, max) == {k \in 1..max : k = Max(DOMAIN rows \cup {0}) + 1}

Ok(op, pk, arg) == [op |-> op, result |-> "ok", pk |-> pk, arg |-> arg]

\* the flush failed on a declared constraint and was rolled back
IntegrityError(op, pk, arg, constraint) ==
    [op |-> op, result |-> "IntegrityError", pk |-> pk, arg |-> arg,
     constraint |-> constraint]

\* nothing stored, nothing cached, nothing derived
Empty ==
    /\ clients = <<>>
    /\ codes = <<>>
    /\ calcjobs = <<>>
    /\ statuses = <<>>
    /\ datanodes = <<>>
    /\ last = Ok("init", 0, None)
    /\ _client = [i \in 1..MaxInstances |-> <<>>]
    /\ attempts = [i \in 1..MaxInstances |-> 0]
    /\ path_out = <<>>
    /\ calcjob_uuid = <<>>
    /\ uuid4_calls = 0
    /\ objects = <<>>
    /\ issued = <<>>
    /\ workers = [w \in 1..MaxWorkers |-> [pc |-> "idle", pk |-> 0, seen |-> None]]

Init ==
    /\ Empty
    /\ path_in = [fsystem |-> "posix", work_dir |-> <<"/", "home", "/", "u">>,
                  uuid |-> <<"abc-123">>]

----------------------------------------------------------------------------
(* Client *)

\* as ClientLabelTaken, without unique=True
ClientLabelTaken_not_unique(label) == FALSE

\* label: mapped_column(unique=True, ...)
ClientLabelTaken(label) == \E c \in DOMAIN clients : clients[c].label = label

\* as CreateClient, with a default that is drawn again while it is taken
CreateClient_redraw(given) ==
    /\ Cardinality(DOMAIN clients) < MaxClients
    /\ \E pk \in NewPks(clients, MaxClients) :
       \E drawn \in (IF given = None THEN random_choice(NAMES) ELSE {given}) :
       \E label \in (IF given = None /\ ClientLabelTaken(drawn)
                     THEN {n \in Range(NAMES) : ~ClientLabelTaken(n)}
                     ELSE {drawn}) :
          LET arg == [label |-> drawn, defaulted |-> (given = None)] IN
          IF ClientLabelTaken(label)
          THEN /\ last' = IntegrityError("create_client", pk, arg, "unique")
               /\ UNCHANGED tables
          ELSE /\ clients' = Put(clients, pk, [label |-> label])
               /\ last' = Ok("create_client", pk, arg)
               /\ UNCHANGED <<codes, calcjobs, statuses, datanodes>>

\* session.add(Client(label=given, ...)); commit.  given = None: the label is
\* left to the column default, which is evaluated once for the INSERT.
CreateClient(given) ==
    /\ Cardinality(DOMAIN clients) < MaxClients
    /\ \E pk \in NewPks(clients, MaxClients) :
       \E label \in (IF given = None THEN random_choice(NAMES) ELSE {given}) :
          LET arg == [label |-> label, defaulted |-> (given = None)] IN
          IF ClientLabelTaken(label)
          THEN /\ last' = IntegrityError("create_client", pk, arg, "unique")
               /\ UNCHANGED tables
          ELSE /\ clients' = Put(clients, pk, [label |-> label])
               /\ last' = Ok("create_client", pk, arg)
               /\ UNCHANGED <<codes, calcjobs, statuses, datanodes>>

\* codes: relationship("Code") has the default cascade (save-update, merge):
\* deleting a client does not delete its codes, it sets their client_pk to NULL
ClientCodes(pk) == {c \in DOMAIN codes : codes[c].client_pk = pk}

\* as DeleteClient, with the codes of the client left to the database
\* (passive_deletes): the row of the client is deleted whatever references it
DeleteClient_passive(pk) ==
    /\ pk \in DOMAIN clients
    /\ clients' = Drop(clients, {pk})
    /\ last' = Ok("delete_client", pk, None)
    /\ UNCHANGED <<codes, calcjobs, statuses, datanodes>>

\* session.delete(client); commit
DeleteClient(pk) ==
    /\ pk \in DOMAIN clients
    /\ IF ClientCodes(pk) # {}
       THEN \* UPDATE code SET client_pk=NULL: client_pk is Mapped[int], NOT NULL
            /\ last' = IntegrityError("delete_client", pk, None, "not_null")
            /\ UNCHANGED tables
       ELSE /\ clients' = Drop(clients, {pk})
            /\ last' = Ok("delete_client", pk, None)
            /\ UNCHANGED <<codes, calcjobs, statuses, datanodes>>

----------------------------------------------------------------------------
(* Code *)

\* as CodeLabelTaken, with UniqueConstraint("label")
CodeLabelTaken_any_client(client_pk, label) ==
    \E c \in DOMAIN codes : codes[c].label = label

\* __table_args__ = (UniqueConstraint("client_pk", "label"),)
CodeLabelTaken(client_pk, label) ==
    \E c \in DOMAIN codes :
        codes[c].client_pk = client_pk /\ codes[c].label = label

\* session.add(Code(client_pk=client_pk, label=given, ...)); commit
CreateCode(client_pk, given) ==
    /\ Cardinality(DOMAIN codes) < MaxCodes
    /\ \E pk \in NewPks(codes, MaxCodes) :
       \E label \in (IF given = None THEN random_choice(NAMES) ELSE {given}) :
          LET arg == [label |-> label, defaulted |-> (given = None),
                      client_pk |-> client_pk] IN
          IF client_pk \notin DOMAIN clients
          THEN \* client_pk: ForeignKey("client.pk")
               /\ last' = IntegrityError("create_code", pk, arg, "foreign_key")
               /\ UNCHANGED tables
          ELSE IF CodeLabelTaken(client_pk, label)
          THEN /\ last' = IntegrityError("create_code", pk, arg, "unique")
               /\ UNCHANGED tables
          ELSE /\ codes' = Put(codes, pk, [label |-> label, client_pk |-> client_pk])
               /\ last' = Ok("create_code", pk, arg)
               /\ UNCHANGED <<clients, calcjobs, statuses, datanodes>>

\* calcjobs: relationship("CalcJob") has the default cascade as well
CodeCalcJobs(pk) == {j \in DOMAIN calcjobs : calcjobs[j].code_pk = pk}

\* session.delete(code); commit
DeleteCode(pk) ==
    /\ pk \in DOMAIN codes
    /\ IF CodeCalcJobs(pk) # {}
       THEN \* UPDATE calcjob SET code_pk=NULL: code_pk is Mapped[int], NOT NULL
            /\ last' = IntegrityError("delete_code", pk, None, "not_null")
            /\ UNCHANGED tables
       ELSE /\ codes' = Drop(codes, {pk})
            /\ last' = Ok("delete_code", pk, None)
            /\ UNCHANGED <<clients, calcjobs, statuses, datanodes>>

----------------------------------------------------------------------------
(* Processing *)

\* as ProcessingRow, with a job_id that is never left empty
ProcessingRow_job_default(calcjob_pk, step, job_id, exception) ==
    [calcjob_pk |-> calcjob_pk,
     step |-> IF step = None THEN "created" ELSE step,
     job_id |-> IF job_id = None THEN "" ELSE job_id,
     exception |-> exception]

\* step: mapped_column(Enum(...), default="created");
\* job_id, exception: Mapped[Optional[str]], no default: NULL when not given
ProcessingRow(calcjob_pk, step, job_id, exception) ==
    [calcjob_pk |-> calcjob_pk,
     step |-> IF step = None THEN "created" ELSE step,
     job_id |-> job_id,
     exception |-> exception]

\* the columns of a status an update may write
StatusFields == {"step", "job_id", "exception"}

\* the position of a step in the order of the Enum
StepIndex(step) == CHOOSE i \in 1..Len(StepOrder) : StepOrder[i] = step

\* as ApplyUpdate, with a step that only moves to its successor or to finalised
ApplyUpdate_ordered(row, vals) ==
    [f \in DOMAIN row |->
        IF f \notin DOMAIN vals THEN row[f]
        ELSE IF f # "step" THEN vals[f]
        ELSE IF \/ StepIndex(vals[f]) = StepIndex(row[f]) + 1
                \/ vals[f] = "finalised" /\ row[f] # "finalised"
             THEN vals[f]
             ELSE row[f]]

\* as ApplyUpdate, with the exception flushed before, and without, the step
ApplyUpdate_split(row, vals) ==
    [f \in DOMAIN row |->
        IF f \notin DOMAIN vals THEN row[f]
        ELSE IF f = "step" /\ "exception" \in DOMAIN vals THEN row[f]
        ELSE vals[f]]

\* as ApplyUpdate, refusing a step finalised that would leave the row with
\* neither a job_id nor an exception
ApplyUpdate_finalise_checked(row, vals) ==
    LET written == [f \in DOMAIN row |-> IF f \in DOMAIN vals THEN vals[f] ELSE row[f]]
    IN IF written.step = "finalised" /\ written.exception = None /\ written.job_id = None
       THEN row
       ELSE written

\* as ApplyUpdate, writing the whole row: a column that is not given is emptied
ApplyUpdate_overwrite(row, vals) ==
    [f \in DOMAIN row |->
        IF f \in DOMAIN vals THEN vals[f]
        ELSE IF f \in {"job_id", "exception"} THEN None
        ELSE row[f]]

\* status.step = ..., status.job_id = ..., status.exception = ...; commit:
\* the flush writes the changed columns of the row in one UPDATE
ApplyUpdate(row, vals) ==
    [f \in DOMAIN row |-> IF f \in DOMAIN vals THEN vals[f] ELSE row[f]]

\* session.add(Processing(calcjob_pk=calcjob_pk, step=..., ...)); commit
CreateProcessing(calcjob_pk, step, job_id, exception) ==
    /\ Cardinality(DOMAIN statuses) < MaxStatuses
    /\ \E pk \in NewPks(statuses, MaxStatuses) :
          LET row == ProcessingRow(calcjob_pk, step, job_id, exception)
              arg == [calcjob_pk |-> calcjob_pk, step |-> step,
                      job_id |-> job_id, exception |-> exception] IN
          IF calcjob_pk \notin DOMAIN calcjobs
          THEN \* calcjob_pk: ForeignKey("calcjob.pk")
               /\ last' = IntegrityError("create_processing", pk, arg, "foreign_key")
               /\ UNCHANGED tables
          ELSE /\ statuses' = Put(statuses, pk, row)
               /\ last' = Ok("create_processing", pk, arg)
               /\ UNCHANGED <<clients, codes, calcjobs, datanodes>>

\* assignments to the columns of one status, then commit; last.before is the
\* step the row had
UpdateStatus_drops_outputs(pk, vals) ==
    /\ pk \in DOMAIN statuses
    /\ statuses' = [statuses EXCEPT ![pk] = ApplyUpdate(@, vals)]
    /\ datanodes' = IF "exception" \in DOMAIN vals
                    THEN Drop(datanodes, {d \in DOMAIN datanodes :
                                 datanodes[d].creator_pk = statuses[pk].calcjob_pk})
                    ELSE datanodes
    /\ last' = [op |-> "update_status", result |-> "ok", pk |-> pk, arg |-> vals,
                before |-> statuses[pk].step]
    /\ UNCHANGED <<clients, codes, calcjobs>>

UpdateStatus(pk, vals) ==
    /\ pk \in DOMAIN statuses
    /\ statuses' = [statuses EXCEPT ![pk] = ApplyUpdate(@, vals)]
    /\ last' = [op |-> "update_status", result |-> "ok", pk |-> pk, arg |-> vals,
                before |-> statuses[pk].step]
    /\ UNCHANGED <<clients, codes, calcjobs, datanodes>>

\* session.delete(status); commit
DeleteProcessing(pk) ==
    /\ pk \in DOMAIN statuses
    /\ statuses' = Drop(statuses, {pk})
    /\ last' = Ok("delete_processing", pk, None)
    /\ UNCHANGED <<clients, codes, calcjobs, datanodes>>

----------------------------------------------------------------------------
(* DataNode *)

\* session.add(DataNode(creator_pk=creator_pk)); commit.  attributes: default=dict
CreateDataNode(creator_pk) ==
    /\ Cardinality(DOMAIN datanodes) < MaxDataNodes
    /\ \E pk \in NewPks(datanodes, MaxDataNodes) :
          IF creator_pk \notin DOMAIN calcjobs
          THEN \* creator_pk: ForeignKey("calcjob.pk")
               /\ last' = IntegrityError("create_datanode", pk, creator_pk, "foreign_key")
               /\ UNCHANGED tables
          ELSE /\ datanodes' = Put(datanodes, pk,
                                   [creator_pk |-> creator_pk, attributes |-> <<>>])
               /\ last' = Ok("create_datanode", pk, creator_pk)
               /\ UNCHANGED <<clients, codes, calcjobs, statuses>>

\* session.delete(node); commit
DeleteDataNode(pk) ==
    /\ pk \in DOMAIN datanodes
    /\ datanodes' = Drop(datanodes, {pk})
    /\ last' = Ok("delete_datanode", pk, None)
    /\ UNCHANGED <<clients, codes, calcjobs, statuses>>

----------------------------------------------------------------------------
(* CalcJob *)

\* the rows of calcjob_status whose calcjob_pk is this calcjob
CalcJobStatuses(pk) == {s \in DOMAIN statuses : statuses[s].calcjob_pk = pk}

\* outputs: relationship("DataNode", cascade="all, delete-orphan")
CalcJobOutputs(pk) == {d \in DOMAIN datanodes : datanodes[d].creator_pk = pk}

\* status: Mapped["Processing"] = relationship(..., single_parent=True,
\* cascade="all, delete-orphan"): a scalar; what calc.status loads is one row
\* of CalcJobStatuses, whichever the query returns first, or nothing.
\* The result is the set of the possible loads, each a set of at most one pk.
LoadedStatus(pk) ==
    IF CalcJobStatuses(pk) = {} THEN {{}} ELSE {{s} : s \in CalcJobStatuses(pk)}

\* session.add(CalcJob(code_pk=code_pk, status=Processing()?)); commit.
\* The status is not defaulted: a calcjob built without one has none.
CreateCalcJob(code_pk, with_status) ==
    /\ Cardinality(DOMAIN calcjobs) < MaxCalcJobs
    /\ with_status => Cardinality(DOMAIN statuses) < MaxStatuses
    /\ \E pk \in NewPks(calcjobs, MaxCalcJobs) :
          LET arg == [code_pk |-> code_pk, with_status |-> with_status] IN
          IF code_pk \notin DOMAIN codes
          THEN \* code_pk: ForeignKey("code.pk")
               /\ last' = IntegrityError("create_calcjob", pk, arg, "foreign_key")
               /\ UNCHANGED tables
          ELSE /\ calcjobs' = Put(calcjobs, pk, [code_pk |-> code_pk])
               /\ IF with_status
                  THEN \E spk \in NewPks(statuses, MaxStatuses) :
                          statuses' = Put(statuses, spk,
                                          ProcessingRow(pk, None, None, None))
                  ELSE UNCHANGED statuses
               /\ last' = Ok("create_calcjob", pk, arg)
               /\ UNCHANGED <<clients, codes, datanodes>>

\* calc.status = Processing() (new_status) or calc.status = None; commit.
\* delete-orphan: the status that was loaded and is replaced is deleted.
AssignStatus(pk, new_status) ==
    /\ pk \in DOMAIN calcjobs
    /\ \E old \in LoadedStatus(pk) :
          LET kept == Drop(statuses, old) IN
          /\ new_status => Cardinality(DOMAIN kept) < MaxStatuses
          /\ IF new_status
             THEN \E spk \in NewPks(kept, MaxStatuses) :
                     statuses' = Put(kept, spk, ProcessingRow(pk, None, None, None))
             ELSE statuses' = kept
          /\ last' = Ok("assign_status", pk, new_status)
          /\ UNCHANGED <<clients, codes, calcjobs, datanodes>>

\* session.delete(calc); commit.  The delete cascades to the loaded status
\* and to the outputs; a row of calcjob_status that still references the
\* calcjob makes DELETE FROM calcjob fail on the foreign key.
DeleteCalcJob(pk) ==
    /\ pk \in DOMAIN calcjobs
    /\ IF Cardinality(CalcJobStatuses(pk)) > 1
       THEN /\ last' = IntegrityError("delete_calcjob", pk, None, "foreign_key")
            /\ UNCHANGED tables
       ELSE /\ calcjobs' = Drop(calcjobs, {pk})
            /\ statuses' = Drop(statuses, CalcJobStatuses(pk))
            /\ datanodes' = Drop(datanodes, CalcJobOutputs(pk))
            /\ last' = Ok("delete_calcjob", pk, None)
            /\ UNCHANGED <<clients, codes>>

----------------------------------------------------------------------------
(* Client.client: the FirecREST handle of a Client object *)

\* how firecrest.Firecrest(...) ends: with a handle, or raising
Outcomes == {"ok", "ConnectionError"}

hasattr_never(i) == FALSE

\* hasattr(self, "_client")
hasattr(i) == _client[i] # <<>>

assigned_always(old, handle, outcome) == handle

\* self._client after `self._client = firecrest.Firecrest(...)`: a constructor
\* that raises leaves the assignment undone
assigned(old, handle, outcome) == IF outcome = "ok" THEN handle ELSE old

\* one read of the property Client.client of object i; the n-th construction
\* that object i asks for makes the handle <<i, n>>
client(i, outcome) ==
    /\ IF hasattr(i)
       THEN /\ last' = [op |-> "client", result |-> "ok", pk |-> i,
                        arg |-> _client[i], cached |-> TRUE]
            /\ UNCHANGED handles
       ELSE /\ attempts[i] < MaxAttempts
            /\ attempts' = [attempts EXCEPT ![i] = @ + 1]
            /\ _client' = [_client EXCEPT ![i] = assigned(@, <<i, attempts[i] + 1>>, outcome)]
            /\ last' = [op |-> "client", result |-> outcome, pk |-> i,
                        arg |-> IF outcome = "ok" THEN _client'[i] ELSE <<>>,
                        cached |-> FALSE]
    /\ UNCHANGED <<tables, paths, uuids, entities, workers>>

----------------------------------------------------------------------------
(* Client.work_path and CalcJob.remote_path                                 *)
(*                                                                          *)
(* A string is the sequence of its tokens: a separator "/" or "\\", a drive *)
(* prefix such as "C:", or a run of other characters.  A path is what       *)
(* pathlib keeps of the string: drive, root and the list of components.     *)
(* UNC drives (\\server\share) are not modelled; no input starts with two   *)
(* separators.                                                              *)

Drives == {"C:"}

\* the pieces of s between the tokens sep
RECURSIVE Split(_, _)
Split(s, sep) ==
    IF s = <<>> THEN << <<>> >>
    ELSE LET rest == Split(Tail(s), sep)
         IN IF Head(s) = sep THEN << <<>> >> \o rest
            ELSE << <<Head(s)>> \o rest[1] >> \o Tail(rest)

\* the components pathlib keeps: empty pieces and "." are dropped
Components(s, sep) ==
    SelectSeq(Split(s, sep), LAMBDA c : c # <<>> /\ c # <<".">>)

\* the number of leading tokens sep of s
RECURSIVE Leading(_, _)
Leading(s, sep) ==
    IF s # <<>> /\ Head(s) = sep THEN 1 + Leading(Tail(s), sep) ELSE 0

\* pathlib.PurePosixPath(s): only "/" separates, exactly two leading slashes
\* are kept as the root "//"
PurePosixPath(s) ==
    [flavour |-> "posix",
     drive |-> <<>>,
     root |-> IF Leading(s, "/") = 0 THEN <<>>
              ELSE IF Leading(s, "/") = 2 THEN <<"/", "/">> ELSE <<"/">>,
     parts |-> Components(s, "/")]

\* pathlib.PureWindowsPath(s): "/" is read as "\\", a leading drive is split
\* off, and a separator after it is the root
PureWindowsPath(s) ==
    LET t == [i \in 1..Len(s) |-> IF s[i] = "/" THEN "\\" ELSE s[i]]
        drive == IF t # <<>> /\ Head(t) \in Drives THEN <<Head(t)>> ELSE <<>>
        rest == SubSeq(t, Len(drive) + 1, Len(t))
    IN [flavour |-> "windows",
        drive |-> drive,
        root |-> IF Leading(rest, "\\") = 0 THEN <<>> ELSE <<"\\">>,
        parts |-> Components(rest, "\\")]

\* the path of string s in the flavour of path p
SameFlavour(p, s) ==
    IF p.flavour = "posix" THEN PurePosixPath(s) ELSE PureWindowsPath(s)

\* p / s: a rooted s replaces the components of p, a relative one extends them
truediv(p, s) ==
    LET q == SameFlavour(p, s)
    IN IF q.root # <<>>
       THEN [q EXCEPT !.drive = IF q.drive # <<>> THEN q.drive ELSE p.drive]
       ELSE IF q.drive # <<>> /\ q.drive # p.drive THEN q
       ELSE [p EXCEPT !.parts = @ \o q.parts]

\* the components joined by sep
RECURSIVE JoinParts(_, _)
JoinParts(parts, sep) ==
    IF parts = <<>> THEN <<>>
    ELSE IF Len(parts) = 1 THEN parts[1]
    ELSE parts[1] \o <<sep>> \o JoinParts(Tail(parts), sep)

\* str(p)
str(p) ==
    LET sep == IF p.flavour = "posix" THEN "/" ELSE "\\"
        text == p.drive \o p.root \o JoinParts(p.parts, sep)
    IN IF text = <<>> THEN <<".">> ELSE text

work_path_posix_only(c) == PurePosixPath(c.work_dir)

\* Client.work_path
work_path(c) ==
    IF c.fsystem = "posix" THEN PurePosixPath(c.work_dir)
    ELSE PureWindowsPath(c.work_dir)

\* CalcJob.remote_path, for the client c of the code of the calcjob
remote_path(c, uuid) == truediv(truediv(work_path(c), <<"workflows">>), uuid)

\* the remote path of a calcjob is derived and shown
ShowRemotePath ==
    /\ path_out' = str(remote_path(path_in, path_in.uuid))
    /\ last' = Ok("remote_path", 0, None)
    /\ UNCHANGED <<tables, handles, path_in, uuids, entities, workers>>

----------------------------------------------------------------------------
(* CalcJob.uuid *)

\* str(uuid4()): the n-th call gives the n-th of these; 122 random bits are
\* taken never to repeat
Uuid4Values ==
    <<"3f2b8c1e-9d4a-4e6f-8a1b-5c7d9e0f1a2b",
      "a8098c1a-f86e-41da-b6f9-1d2e3f4a5b6c",
      "0d1c2b3a-4f5e-4a6b-9c8d-7e6f5a4b3c2d">>

\* session.add(CalcJob(code_pk=code_pk, uuid=given, status=Processing())); commit:
\* the column default is called when no uuid is given, and the row keeps the
\* uuid when the insert is accepted
AddCalcJob(code_pk, given) ==
    /\ given = None => uuid4_calls < Len(Uuid4Values)
    /\ CreateCalcJob(code_pk, TRUE)
    /\ uuid4_calls' = IF given = None THEN uuid4_calls + 1 ELSE uuid4_calls
    /\ calcjob_uuid' =
          IF last'.result = "ok"
          THEN Put(calcjob_uuid, last'.pk,
                   IF given = None THEN Uuid4Values[uuid4_calls + 1] ELSE given)
          ELSE calcjob_uuid
    /\ UNCHANGED <<handles, paths, entities, workers>>

----------------------------------------------------------------------------
(* Code.script *)

\* the names a script may use: {{ client }}, {{ code }} and {{ calc }}
Placeholders == {"client", "code", "calc"}

render_unchecked(code_pk, bound) ==
    /\ code_pk \in DOMAIN codes
    /\ last' = [op |-> "render", result |-> "ok", pk |-> code_pk, arg |-> bound]
    /\ UNCHANGED <<tables, memory>>

\* the script of a code is rendered with values bound to the names in bound:
\* it needs all three, and reads the tables only
render(code_pk, bound) ==
    /\ code_pk \in DOMAIN codes
    /\ last' = [op |-> "render",
                result |-> IF Placeholders \subseteq bound THEN "ok"
                           ELSE "TemplateRenderError",
                pk |-> code_pk, arg |-> bound]
    /\ UNCHANGED <<tables, memory>>

----------------------------------------------------------------------------
(* Base: pk, __eq__ and __hash__ of the entities as Python objects *)

\* the classes of the entities; none is a subclass of another
Kinds == {"Client", "Code"}

\* pk of an object the database has not inserted yet (None)
NoPk == 0

\* the primary keys of kind the database has set, and those of the rows it holds
IssuedPks(kind) == {issued[n][2] : n \in {m \in 1..Len(issued) : issued[m][1] = kind}}
StoredPks(kind) == {objects[o].pk : o \in {x \in DOMAIN objects : objects[x].kind = kind}} \ {NoPk}

\* "The primary key set by the database": an integer key is the largest stored
\* key plus one (a rowid) or the next value of a sequence, by the engine
DatabasePks(kind) == {Max(StoredPks(kind) \cup {0}) + 1, Max(IssuedPks(kind) \cup {0}) + 1}

\* a.__eq__(b)
eq(a, b) ==
    IF objects[b].kind # objects[a].kind THEN FALSE
    ELSE objects[a].pk = objects[b].pk

\* Kind(...): a new object, its pk not set
construct(kind) ==
    /\ Cardinality(DOMAIN objects) < MaxObjects
    /\ \E o \in NewPks(objects, MaxObjects) :
          /\ objects' = Put(objects, o, [kind |-> kind, pk |-> NoPk])
          /\ last' = Ok("new", o, kind)
    /\ UNCHANGED <<tables, handles, paths, uuids, issued, workers>>

\* session.add(o); session.commit(): the row is inserted and the database sets pk
add(o) ==
    /\ o \in DOMAIN objects
    /\ objects[o].pk = NoPk
    /\ Len(issued) < MaxIssued
    /\ \E pk \in DatabasePks(objects[o].kind) :
          /\ objects' = [objects EXCEPT ![o].pk = pk]
          /\ issued' = Append(issued, <<objects[o].kind, pk>>)
          /\ last' = Ok("add", o, pk)
    /\ UNCHANGED <<tables, handles, paths, uuids, workers>>

\* session.delete(o); session.commit(), or a new object dropped: the end of the
\* life of the entity
delete(o) ==
    /\ o \in DOMAIN objects
    /\ objects' = Drop(objects, {o})
    /\ last' = Ok("delete", o, objects[o].pk)
    /\ UNCHANGED <<tables, handles, paths, uuids, issued, workers>>

----------------------------------------------------------------------------
(* Orchestrator workers on the calcjob_status rows *)

Locked_never(pk) == FALSE

\* the lock of the calcjob of status pk is held by a worker
Locked(pk) == \E w \in DOMAIN workers : workers[w].pc = "holding" /\ workers[w].pk = pk

\* what a worker that has read step writes back: the next step, or a failure
\* with the step finalised; nothing after finalised
Decisions(step) ==
    IF step = "finalised" THEN {}
    ELSE {[step |-> StepOrder[StepIndex(step) + 1]]}
         \cup {[step |-> "finalised", exception |-> e] : e \in Exceptions}

\* worker w takes the lock of status pk and reads the step of the row
ReadStatus(w, pk) ==
    /\ workers[w].pc = "idle"
    /\ pk \in DOMAIN statuses
    /\ ~Locked(pk)
    /\ workers' = [workers EXCEPT ![w] = [pc |-> "holding", pk |-> pk,
                                          seen |-> statuses[pk].step]]
    /\ last' = Ok("read_status", pk, w)
    /\ UNCHANGED <<tables, handles, paths, uuids, entities>>

\* worker w writes what it decided from the step it read, and gives the lock back
WriteStatus(w) ==
    /\ workers[w].pc = "holding"
    /\ workers' = [workers EXCEPT ![w] = [pc |-> "idle", pk |-> 0, seen |-> None]]
    /\ IF Decisions(workers[w].seen) = {}
       THEN /\ last' = Ok("release", workers[w].pk, w)
            /\ UNCHANGED tables
       ELSE \E vals \in Decisions(workers[w].seen) : UpdateStatus(workers[w].pk, vals)
    /\ UNCHANGED <<handles, paths, uuids, entities>>

----------------------------------------------------------------------------
(* Specifications *)

\* the labelled entities: clients and their codes
NextLabels ==
    \/ \E given \in Labels \cup {None} : CreateClient(given) /\ UNCHANGED memory
    \/ \E pk \in 1..MaxClients : DeleteClient(pk) /\ UNCHANGED memory
    \/ \E client_pk \in 1..MaxClients, given \in Labels \cup {None} :
          CreateCode(client_pk, given) /\ UNCHANGED memory
    \/ \E pk \in 1..MaxCodes : DeleteCode(pk) /\ UNCHANGED memory

SpecLabels == Init /\ [][NextLabels]_vars

\* what one update may write: values for a non-empty set of the columns
UpdateVals ==
    LET ValuesOf(f) == IF f = "step" THEN Steps
                       ELSE IF f = "job_id" THEN JobIds \cup {None}
                       ELSE Exceptions \cup {None}
        Assignments(fs) == {v \in [fs -> Steps \cup JobIds \cup Exceptions \cup {None}] :
                               \A f \in fs : v[f] \in ValuesOf(f)}
    IN UNION {Assignments(fs) : fs \in (SUBSET StatusFields) \ {{}}}

\* the ownership tree: creation and deletion of every kind of entity
NextTree ==
    \/ CreateClient("a") /\ UNCHANGED memory
    \/ \E pk \in 1..MaxClients : DeleteClient(pk) /\ UNCHANGED memory
    \/ \E client_pk \in 1..MaxClients : CreateCode(client_pk, "a") /\ UNCHANGED memory
    \/ \E pk \in 1..MaxCodes : DeleteCode(pk) /\ UNCHANGED memory
    \/ \E code_pk \in 1..MaxCodes, with_status \in BOOLEAN :
          CreateCalcJob(code_pk, with_status) /\ UNCHANGED memory
    \/ \E pk \in 1..MaxCalcJobs, new_status \in BOOLEAN :
          AssignStatus(pk, new_status) /\ UNCHANGED memory
    \/ \E pk \in 1..MaxCalcJobs : DeleteCalcJob(pk) /\ UNCHANGED memory
    \/ \E calcjob_pk \in 1..MaxCalcJobs :
          CreateProcessing(calcjob_pk, None, None, None) /\ UNCHANGED memory
    \/ \E pk \in 1..MaxStatuses : DeleteProcessing(pk) /\ UNCHANGED memory
    \/ \E creator_pk \in 1..MaxCalcJobs : CreateDataNode(creator_pk) /\ UNCHANGED memory
    \/ \E pk \in 1..MaxDataNodes : DeleteDataNode(pk) /\ UNCHANGED memory

SpecTree == Init /\ [][NextTree]_vars

\* the life of the execution statuses: creation and updates
Next ==
    \/ CreateClient("a") /\ UNCHANGED memory
    \/ \E client_pk \in 1..MaxClients : CreateCode(client_pk, "a") /\ UNCHANGED memory
    \/ \E code_pk \in 1..MaxCodes, with_status \in BOOLEAN :
          /\ Cardinality(DOMAIN calcjobs) < MaxLifecycles
          /\ with_status => Cardinality(DOMAIN statuses) < MaxLifecycles
          /\ CreateCalcJob(code_pk, with_status)
          /\ UNCHANGED memory
    \/ \E calcjob_pk \in 1..MaxCalcJobs :
          /\ Cardinality(DOMAIN statuses) < MaxLifecycles
          /\ CreateProcessing(calcjob_pk, None, None, None)
          /\ UNCHANGED memory
    \/ \E pk \in 1..MaxStatuses, vals \in UpdateVals : UpdateStatus(pk, vals) /\ UNCHANGED memory

Spec == Init /\ [][Next]_vars

\* the reads of the handle of the Client objects in memory
NextHandles ==
    \/ \E i \in 1..MaxInstances, outcome \in Outcomes : client(i, outcome)

SpecHandles == Init /\ [][NextHandles]_vars

\* working directories, as a Client may hold them
HomeU == <<"/", "home", "/", "u">>
UsersU == <<"C:", "\\", "Users", "\\", "u">>
WorkDirs ==
    {HomeU, UsersU,
     <<"/", "home", "/", "u", "/">>,
     <<"/", "home", "/", "/", "u">>,
     <<"/", "home", "/", ".", "/", "u">>,
     <<"home", "/", "u">>,
     <<"C:", "/", "Users", "/", "u">>,
     <<"C:", "\\", "Users", "\\", "u", "\\">>,
     <<"/">>}

\* identifiers of a calcjob: one given by the caller, two as uuid4 makes them
Abc123 == <<"abc-123">>
Uuids ==
    {Abc123,
     <<"3f2b8c1e-9d4a-4e6f-8a1b-5c7d9e0f1a2b">>,
     <<"a8098c1a-f86e-41da-b6f9-1d2e3f4a5b6c">>}

PathInputs == [fsystem : {"posix", "windows"}, work_dir : WorkDirs, uuid : Uuids]

\* the remote paths of calcjobs, for every working directory and identifier
InitPaths == Empty /\ path_in \in PathInputs

NextPaths ==
    \/ ShowRemotePath

SpecPaths == InitPaths /\ [][NextPaths]_vars

\* uuids a caller gives to a calcjob
GivenUuids == {"abc-123"}

\* the calcjobs and their uuids
NextUuids ==
    \/ CreateClient("a") /\ UNCHANGED memory
    \/ \E client_pk \in 1..MaxClients : CreateCode(client_pk, "a") /\ UNCHANGED memory
    \/ \E code_pk \in 1..MaxCodes, given \in GivenUuids \cup {None} :
          AddCalcJob(code_pk, given)

SpecUuids == Init /\ [][NextUuids]_vars

\* what an orchestrator writes in one update: a step, the job id of an accepted
\* submission, or a failure with the step finalised
OrchestratorVals ==
    {[step |-> s] : s \in Steps}
    \cup {[job_id |-> j] : j \in JobIds}
    \cup {[step |-> "finalised", exception |-> e] : e \in Exceptions}

\* the statuses while scripts are rendered
NextRender ==
    \/ CreateClient("a") /\ UNCHANGED memory
    \/ \E client_pk \in 1..MaxClients : CreateCode(client_pk, "a") /\ UNCHANGED memory
    \/ \E code_pk \in 1..MaxCodes :
          /\ Cardinality(DOMAIN calcjobs) < MaxLifecycles
          /\ CreateCalcJob(code_pk, TRUE)
          /\ UNCHANGED memory
    \/ \E pk \in 1..MaxStatuses, vals \in OrchestratorVals :
          UpdateStatus(pk, vals) /\ UNCHANGED memory
    \/ \E code_pk \in 1..MaxCodes, bound \in SUBSET Placeholders : render(code_pk, bound)

SpecRender == Init /\ [][NextRender]_vars

\* the lives of the entities as Python objects
NextEntities ==
    \/ \E kind \in Kinds : construct(kind)
    \/ \E o \in 1..MaxObjects : add(o)
    \/ \E o \in 1..MaxObjects : delete(o)

SpecEntities == Init /\ [][NextEntities]_vars

\* the outputs of the calcjobs while their statuses are updated
NextOutputs ==
    \/ CreateClient("a") /\ UNCHANGED memory
    \/ \E client_pk \in 1..MaxClients : CreateCode(client_pk, "a") /\ UNCHANGED memory
    \/ \E code_pk \in 1..MaxCodes :
          /\ Cardinality(DOMAIN calcjobs) < MaxLifecycles
          /\ CreateCalcJob(code_pk, TRUE)
          /\ UNCHANGED memory
    \/ \E pk \in 1..MaxStatuses, vals \in OrchestratorVals :
          UpdateStatus(pk, vals) /\ UNCHANGED memory
    \/ \E creator_pk \in 1..MaxCalcJobs : CreateDataNode(creator_pk) /\ UNCHANGED memory
    \/ \E pk \in 1..MaxDataNodes : DeleteDataNode(pk) /\ UNCHANGED memory
    \/ \E pk \in 1..MaxCalcJobs : DeleteCalcJob(pk) /\ UNCHANGED memory

SpecOutputs == Init /\ [][NextOutputs]_vars

\* the statuses advanced by the workers only
NextWorkers ==
    \/ CreateClient("a") /\ UNCHANGED memory
    \/ \E client_pk \in 1..MaxClients : CreateCode(client_pk, "a") /\ UNCHANGED memory
    \/ \E code_pk \in 1..MaxCodes : CreateCalcJob(code_pk, TRUE) /\ UNCHANGED memory
    \/ \E w \in 1..MaxWorkers, pk \in 1..MaxStatuses : ReadStatus(w, pk)
    \/ \E w \in 1..MaxWorkers : WriteStatus(w)

SpecWorkers == Init /\ [][NextWorkers]_vars

----------------------------------------------------------------------------
(* The execution status: step, job_id, exception *)

\* the status rows that a step keeps
Kept == DOMAIN statuses \cap DOMAIN statuses'

\* the step of the order that follows, or finalised reached with a failure
LegalTransition(old, new) ==
    \/ /\ old.step # "finalised"
       /\ StepIndex(new.step) = StepIndex(old.step) + 1
    \/ /\ old.step # "finalised"
       /\ new.step = "finalised"
       /\ new.exception # None

\* C1 as stated: every change of the step of an execution status is to the
\* next step of the order created, uploading, submitting, running,
\* retrieving, finalised, or to finalised with a failure recorded; no other
\* change is accepted.
C1_OnlyLegalTransitions ==
    [][\A pk \in Kept :
          statuses'[pk].step # statuses[pk].step
             => LegalTransition(statuses[pk], statuses'[pk])]_vars

\* C1 as amended: a new status whose step is not given has step created, and
\* every update that writes one of the six steps is accepted and makes it the
\* step of the status, whatever the step was before.
C1_AnyStepAccepted ==
    [][/\ (last'.op = "create_processing" /\ last'.result = "ok"
              /\ last'.arg.step = None)
          => statuses'[last'.pk].step = "created"
       /\ (last'.op = "update_status" /\ "step" \in DOMAIN last'.arg)
          => /\ last'.result = "ok"
             /\ statuses'[last'.pk].step = last'.arg.step]_vars

\* an accepted update took a status out of finalised, back to created
C1_Witness ==
    /\ last.op = "update_status"
    /\ last.result = "ok"
    /\ "step" \in DOMAIN last.arg
    /\ last.before = "finalised"
    /\ statuses[last.pk].step = "created"

\* C2 as stated: in every reachable state, a status whose exception is set
\* has step finalised.
C2_FailureImpliesFinalised ==
    \A pk \in DOMAIN statuses :
        statuses[pk].exception # None => statuses[pk].step = "finalised"

\* C2 as amended: when an update writes the exception together with step
\* finalised, the first state in which the exception is set already has step
\* finalised and the exception that was written: the two are applied as one.
C2_FailureCaptureAtomic ==
    [][\A pk \in Kept :
          (/\ last'.op = "update_status"
           /\ last'.pk = pk
           /\ {"step", "exception"} \subseteq DOMAIN last'.arg
           /\ last'.arg.step = "finalised"
           /\ last'.arg.exception # None)
          => /\ statuses'[pk].step = "finalised"
             /\ statuses'[pk].exception = last'.arg.exception]_vars

\* a failure was captured on a running status: it is finalised with the
\* exception set
C2_Witness ==
    /\ last.op = "update_status"
    /\ {"step", "exception"} \subseteq DOMAIN last.arg
    /\ last.arg.step = "finalised"
    /\ last.arg.exception \in Exceptions
    /\ last.before = "running"
    /\ statuses[last.pk].step = "finalised"
    /\ statuses[last.pk].exception = last.arg.exception

\* C3 as stated: in every reachable state the job_id is absent while the step
\* is created, uploading or submitting, and present while it is running or
\* retrieving.
C3_JobIdFollowsStep ==
    \A pk \in DOMAIN statuses :
        /\ statuses[pk].step \in {"created", "uploading", "submitting"}
              => statuses[pk].job_id = None
        /\ statuses[pk].step \in {"running", "retrieving"}
              => statuses[pk].job_id # None

\* C3 as amended: a new status has no job_id unless one is given, and the
\* job_id of a status changes only by an update that writes it, to the value
\* written; the step does not decide it.
C3_JobIdOnlyWhenWritten ==
    [][/\ \A pk \in DOMAIN statuses' \ DOMAIN statuses :
             statuses'[pk].job_id # None
                => /\ last'.op = "create_processing"
                   /\ last'.arg.job_id = statuses'[pk].job_id
       /\ \A pk \in Kept :
             statuses'[pk].job_id # statuses[pk].job_id
                => /\ last'.op = "update_status"
                   /\ last'.pk = pk
                   /\ "job_id" \in DOMAIN last'.arg
                   /\ statuses'[pk].job_id = last'.arg.job_id]_vars

\* a status advanced from submitting to running and has no job_id
C3_Witness ==
    /\ last.op = "update_status"
    /\ last.arg = [step |-> "running"]
    /\ last.before = "submitting"
    /\ statuses[last.pk].step = "running"
    /\ statuses[last.pk].job_id = None

\* C4: recording a failure (an update that writes the exception and not the
\* job_id) leaves the job_id as it was; on a status in step submitting with
\* no job_id, writing the exception with step finalised gives a status that
\* is finalised, has the exception set and still has no job_id.
C4_FailureKeepsJobId ==
    [][(/\ last'.op = "update_status"
        /\ "exception" \in DOMAIN last'.arg
        /\ "job_id" \notin DOMAIN last'.arg)
       => /\ statuses'[last'.pk].job_id = statuses[last'.pk].job_id
          /\ (/\ statuses[last'.pk].step = "submitting"
              /\ statuses[last'.pk].job_id = None
              /\ "step" \in DOMAIN last'.arg
              /\ last'.arg.step = "finalised"
              /\ last'.arg.exception # None)
             => statuses'[last'.pk] =
                   [calcjob_pk |-> statuses[last'.pk].calcjob_pk,
                    step |-> "finalised",
                    job_id |-> None,
                    exception |-> last'.arg.exception]]_vars

\* the submission of a status in step submitting with no job_id failed
C4_Witness ==
    /\ last.op = "update_status"
    /\ DOMAIN last.arg = {"step", "exception"}
    /\ last.arg.step = "finalised"
    /\ last.arg.exception \in Exceptions
    /\ last.before = "submitting"
    /\ statuses[last.pk].step = "finalised"
    /\ statuses[last.pk].exception = last.arg.exception
    /\ statuses[last.pk].job_id = None

----------------------------------------------------------------------------
(* The ownership tree *)

\* every row references an existing owner
NoOrphans ==
    /\ \A c \in DOMAIN codes : codes[c].client_pk \in DOMAIN clients
    /\ \A j \in DOMAIN calcjobs : calcjobs[j].code_pk \in DOMAIN codes
    /\ \A s \in DOMAIN statuses : statuses[s].calcjob_pk \in DOMAIN calcjobs
    /\ \A d \in DOMAIN datanodes : datanodes[d].creator_pk \in DOMAIN calcjobs

\* C5: every existing calcjob has exactly one status, and every status
\* belongs to an existing calcjob.
C5_ExactlyOneStatus ==
    /\ \A j \in DOMAIN calcjobs : Cardinality(CalcJobStatuses(j)) = 1
    /\ \A s \in DOMAIN statuses : statuses[s].calcjob_pk \in DOMAIN calcjobs

\* C6: deleting a calcjob removes exactly the calcjob, its status rows and
\* its outputs, and leaves every other row of every table as it was.
C6_DeleteCalcJobExact ==
    [][last'.op = "delete_calcjob"
       => /\ calcjobs' = Drop(calcjobs, {last'.pk})
          /\ statuses' = Drop(statuses, CalcJobStatuses(last'.pk))
          /\ datanodes' = Drop(datanodes, CalcJobOutputs(last'.pk))
          /\ UNCHANGED <<clients, codes>>]_vars

\* the calcjobs a client owns through its codes
ClientCalcJobs(pk) == UNION {CodeCalcJobs(c) : c \in ClientCodes(pk)}

\* C7 as stated: deleting a client removes the client with its codes, their
\* calcjobs and the statuses and outputs of these; deleting a code removes
\* the code with its calcjobs and their statuses and outputs; and no row
\* ever references a deleted owner.
C7_DeleteCascades ==
    /\ []NoOrphans
    /\ [][/\ last'.op = "delete_client"
             => /\ clients' = Drop(clients, {last'.pk})
                /\ codes' = Drop(codes, ClientCodes(last'.pk))
                /\ calcjobs' = Drop(calcjobs, ClientCalcJobs(last'.pk))
          /\ last'.op = "delete_code"
             => /\ codes' = Drop(codes, {last'.pk})
                /\ calcjobs' = Drop(calcjobs, CodeCalcJobs(last'.pk))]_vars

\* C7 as amended: deleting a client that still has codes, or a code that
\* still has calcjobs, is rejected and changes nothing; a client without
\* codes or a code without calcjobs is deleted alone; and no row ever
\* references a deleted owner.
C7_DeleteOwnerRejected ==
    /\ []NoOrphans
    /\ [][/\ last'.op = "delete_client"
             => IF ClientCodes(last'.pk) # {}
                THEN last'.result = "IntegrityError" /\ UNCHANGED tables
                ELSE /\ last'.result = "ok"
                     /\ clients' = Drop(clients, {last'.pk})
                     /\ UNCHANGED <<codes, calcjobs, statuses, datanodes>>
          /\ last'.op = "delete_code"
             => IF CodeCalcJobs(last'.pk) # {}
                THEN last'.result = "IntegrityError" /\ UNCHANGED tables
                ELSE /\ last'.result = "ok"
                     /\ codes' = Drop(codes, {last'.pk})
                     /\ UNCHANGED <<clients, calcjobs, statuses, datanodes>>]_vars

\* the deletion of a client that owns a code with a calcjob, which has a
\* status and an output, was rejected: the whole tree is still there
C7_Witness ==
    /\ last.op = "delete_client"
    /\ last.result = "IntegrityError"
    /\ last.pk \in DOMAIN clients
    /\ \E j \in ClientCalcJobs(last.pk) :
          CalcJobStatuses(j) # {} /\ CalcJobOutputs(j) # {}

----------------------------------------------------------------------------
(* Labels *)

\* no two clients have the same label
ClientLabelsUnique ==
    \A c1, c2 \in DOMAIN clients :
        clients[c1].label = clients[c2].label => c1 = c2

\* C8: any two distinct clients have different labels; creating a client
\* whose label is the label of an existing client fails (IntegrityError on
\* the unique constraint, the spec's DuplicateLabel) and leaves every table
\* as it was; with a label no client has, the client is stored.
C8_ClientLabelUnique ==
    /\ []ClientLabelsUnique
    /\ [][last'.op = "create_client"
          => IF \E c \in DOMAIN clients : clients[c].label = last'.arg.label
             THEN /\ last'.result = "IntegrityError"
                  /\ last'.constraint = "unique"
                  /\ UNCHANGED tables
             ELSE /\ last'.result = "ok"
                  /\ clients' = Put(clients, last'.pk, [label |-> last'.arg.label])
                  /\ UNCHANGED <<codes, calcjobs, statuses, datanodes>>]_vars

\* a client with the explicit label of an existing client was refused, with
\* clients and codes stored
C8_Witness ==
    /\ last.op = "create_client"
    /\ last.result = "IntegrityError"
    /\ ~last.arg.defaulted
    /\ \E c \in DOMAIN clients : clients[c].label = last.arg.label
    /\ DOMAIN codes # {}

\* no two codes of one client have the same label
CodeLabelsUnique ==
    \A c1, c2 \in DOMAIN codes :
        (/\ codes[c1].client_pk = codes[c2].client_pk
         /\ codes[c1].label = codes[c2].label) => c1 = c2

\* C9: any two distinct codes of the same client have different labels;
\* creating a code whose label is the label of another code of the same
\* client fails (IntegrityError on the unique constraint), and creating one
\* whose label is used only by codes of other clients succeeds.
C9_CodeLabelUniquePerClient ==
    /\ []CodeLabelsUnique
    /\ [][(last'.op = "create_code" /\ last'.arg.client_pk \in DOMAIN clients)
          => IF \E c \in ClientCodes(last'.arg.client_pk) :
                   codes[c].label = last'.arg.label
             THEN /\ last'.result = "IntegrityError"
                  /\ last'.constraint = "unique"
                  /\ UNCHANGED tables
             ELSE /\ last'.result = "ok"
                  /\ codes' = Put(codes, last'.pk,
                                  [label |-> last'.arg.label,
                                   client_pk |-> last'.arg.client_pk])
                  /\ UNCHANGED <<clients, calcjobs, statuses, datanodes>>]_vars

\* a code was created with the label that a code of another client has
C9_Witness ==
    /\ last.op = "create_code"
    /\ last.result = "ok"
    /\ \E c \in DOMAIN codes :
          /\ c # last.pk
          /\ codes[c].label = codes[last.pk].label
          /\ codes[c].client_pk # codes[last.pk].client_pk

\* C10: a client created without a label gets a label of NAMES; the default
\* is drawn once: when the drawn name is the label of an existing client the
\* creation fails on the unique constraint and stores nothing, otherwise the
\* client is stored with the drawn name.
C10_DefaultLabelFromPool ==
    [][(last'.op = "create_client" /\ last'.arg.defaulted)
       => /\ last'.arg.label \in Range(NAMES)
          /\ IF \E c \in DOMAIN clients : clients[c].label = last'.arg.label
             THEN /\ last'.result = "IntegrityError"
                  /\ clients' = clients
             ELSE /\ last'.result = "ok"
                  /\ last'.pk \in DOMAIN clients' \ DOMAIN clients
                  /\ clients'[last'.pk].label = last'.arg.label]_vars

\* a client created without a label drew the label of an existing client
\* and was refused
C10_Witness ==
    /\ last.op = "create_client"
    /\ last.arg.defaulted
    /\ last.result = "IntegrityError"
    /\ last.arg.label \in Range(NAMES)
    /\ \E c \in DOMAIN clients : clients[c].label = last.arg.label

----------------------------------------------------------------------------
\* the reads of Client.client in this step: a step that is not a stuttering
\* step and ends with last'.op = "client" is a read by object last'.pk
Reads(i) == last'.op = "client" /\ last'.pk = i

\* C11: once a construction of the handle of a Client object has succeeded,
\* every later read of its handle returns that same handle and constructs
\* nothing: the handle of one object is constructed successfully at most once.
C11_HandleConstructedOnce ==
    [][\A i \in 1..MaxInstances :
          _client[i] # <<>> =>
             /\ _client'[i] = _client[i]
             /\ attempts'[i] = attempts[i]
             /\ Reads(i) => /\ last'.result = "ok"
                            /\ last'.cached
                            /\ last'.arg = _client[i]]_vars

\* a read of a handle that was constructed by an earlier read
C11_Witness ==
    /\ last.op = "client"
    /\ last.cached
    /\ last.arg = _client[last.pk]
    /\ attempts[last.pk] = 1

\* C12: a read of the handle whose construction fails ends with
\* ConnectionError and caches nothing; a read of an object with nothing
\* cached always constructs, and when that construction succeeds the read
\* returns the new handle, which is cached from then on.
C12_FailureNotCached ==
    [][\A i \in 1..MaxInstances :
          (_client[i] = <<>> /\ Reads(i)) =>
             /\ attempts'[i] = attempts[i] + 1
             /\ ~last'.cached
             /\ last'.result \in Outcomes
             /\ last'.result = "ConnectionError" =>
                   /\ last'.arg = <<>>
                   /\ _client'[i] = <<>>
             /\ last'.result = "ok" =>
                   /\ last'.arg = <<i, attempts'[i]>>
                   /\ _client'[i] = last'.arg]_vars

\* a read that constructed the handle after an earlier read of the same object
\* had failed
C12_Witness ==
    /\ last.op = "client"
    /\ last.result = "ok"
    /\ ~last.cached
    /\ attempts[last.pk] = 2
    /\ _client[last.pk] = <<last.pk, 2>>

----------------------------------------------------------------------------
\* the separator a filesystem convention writes, and the tokens it reads as one
Separator(fsystem) == IF fsystem = "posix" THEN "/" ELSE "\\"
Separators(fsystem) == IF fsystem = "posix" THEN {"/"} ELSE {"/", "\\"}

\* a working directory written the way its convention writes it: separated by
\* the convention's own separator, none doubled or trailing, no "." component
Plain(fsystem, work_dir) ==
    /\ work_dir # <<>>
    /\ \A i \in 1..Len(work_dir) :
          /\ work_dir[i] \in Separators(fsystem) => work_dir[i] = Separator(fsystem)
          /\ work_dir[i] # "."
    /\ \A i \in 1..(Len(work_dir) - 1) :
          ~(work_dir[i] \in Separators(fsystem) /\ work_dir[i + 1] \in Separators(fsystem))
    /\ work_dir[Len(work_dir)] \notin Separators(fsystem)

\* C13: the remote folder of a calcjob is the working directory of its client,
\* then "workflows", then the uuid of the calcjob, joined by the separator of
\* the filesystem convention of the client: /home/u and abc-123 give
\* /home/u/workflows/abc-123 under posix, C:\Users\u and abc-123 give
\* C:\Users\u\workflows\abc-123 under windows.
C13_RemotePath ==
    path_out # <<>> =>
       /\ (path_in = [fsystem |-> "posix", work_dir |-> HomeU, uuid |-> Abc123])
             => path_out = <<"/", "home", "/", "u", "/", "workflows", "/", "abc-123">>
       /\ (path_in = [fsystem |-> "windows", work_dir |-> UsersU, uuid |-> Abc123])
             => path_out = <<"C:", "\\", "Users", "\\", "u", "\\", "workflows", "\\", "abc-123">>
       /\ Plain(path_in.fsystem, path_in.work_dir)
             => path_out = path_in.work_dir
                           \o <<Separator(path_in.fsystem), "workflows",
                                Separator(path_in.fsystem)>>
                           \o path_in.uuid

\* the remote folder of the windows example was derived
C13_Witness ==
    /\ path_in = [fsystem |-> "windows", work_dir |-> UsersU, uuid |-> Abc123]
    /\ path_out = <<"C:", "\\", "Users", "\\", "u", "\\", "workflows", "\\", "abc-123">>

----------------------------------------------------------------------------
\* the client of a calcjob
CalcJobClient(pk) == codes[calcjobs[pk].code_pk].client_pk

\* what a client may hold as filesystem convention and working directory
ClientPaths == [fsystem : {"posix", "windows"}, work_dir : WorkDirs]

\* C14: no two calcjobs have the same uuid, so two calcjobs of the same client
\* never have the same remote folder, whatever the working directory and the
\* filesystem convention of the client.
C14_UuidUnique ==
    \A j1, j2 \in DOMAIN calcjob_uuid :
       j1 # j2 =>
          /\ calcjob_uuid[j1] # calcjob_uuid[j2]
          /\ CalcJobClient(j1) = CalcJobClient(j2) =>
                \A c \in ClientPaths :
                   str(remote_path(c, <<calcjob_uuid[j1]>>))
                      # str(remote_path(c, <<calcjob_uuid[j2]>>))

----------------------------------------------------------------------------
\* C15: rendering the script of a code with no value bound to calc fails with
\* TemplateRenderError, and every status is the same after the failed
\* rendering as before it.
C15_RenderNeedsCalc ==
    [][(last'.op = "render" /\ "calc" \notin last'.arg) =>
          /\ last'.result = "TemplateRenderError"
          /\ statuses' = statuses]_vars

\* a rendering without calc failed while a calcjob was running
C15_Witness ==
    /\ last.op = "render"
    /\ "calc" \notin last.arg
    /\ last.result = "TemplateRenderError"
    /\ \E pk \in DOMAIN statuses : statuses[pk].step = "running"

----------------------------------------------------------------------------
\* C16: every entity has a primary key from the moment it is created, no
\* primary key is set for a second entity of the same kind even after the
\* first was deleted, and two entities are equal exactly when they are of the
\* same kind and have the same primary key, so that two distinct entities are
\* never equal.
C16_IdentityFromCreation ==
    /\ \A o \in DOMAIN objects : objects[o].pk # NoPk
    /\ \A m, n \in 1..Len(issued) : m # n => issued[m] # issued[n]
    /\ \A a, b \in DOMAIN objects :
          eq(a, b) <=> (objects[a].kind = objects[b].kind /\ objects[a].pk = objects[b].pk)
    /\ \A a, b \in DOMAIN objects : a # b => ~eq(a, b)

----------------------------------------------------------------------------
\* this step records a failure on a calcjob whose status was in one of steps
RecordsFailure(steps) ==
    /\ last'.op = "update_status"
    /\ "exception" \in DOMAIN last'.arg
    /\ last'.arg.exception # None
    /\ last'.before \in steps

\* the rows of table "data" this step removes
Removed == DOMAIN datanodes \ DOMAIN datanodes'

\* C17 as stated: recording a failure on a calcjob in step running or
\* retrieving leaves its outputs and their attributes as they were, and an
\* output is removed only when its calcjob is deleted.
C17_OutputsOnlyDeletedWithCalcJob ==
    [][/\ RecordsFailure({"running", "retrieving"}) => datanodes' = datanodes
       /\ Removed # {} => last'.op = "delete_calcjob"]_vars

\* C17: recording a failure on a calcjob in step running or retrieving leaves
\* its outputs and their attributes as they were; an output is removed only
\* when its calcjob is deleted or when the output itself is deleted, and the
\* deletion of a calcjob removes exactly its own outputs.
C17_FailureKeepsOutputs ==
    [][/\ RecordsFailure({"running", "retrieving"}) => datanodes' = datanodes
       /\ Removed # {} =>
             \/ /\ last'.op = "delete_calcjob"
                /\ Removed = CalcJobOutputs(last'.pk)
             \/ /\ last'.op = "delete_datanode"
                /\ Removed = {last'.pk}]_vars

\* a failure was recorded on a running calcjob that has an output
C17_Witness ==
    /\ last.op = "update_status"
    /\ last.before = "running"
    /\ "exception" \in DOMAIN last.arg
    /\ last.pk \in DOMAIN statuses
    /\ statuses[last.pk].exception # None
    /\ CalcJobOutputs(statuses[last.pk].calcjob_pk) # {}

----------------------------------------------------------------------------
\* the worker that writes in this step
Writes(w) == workers[w].pc = "holding" /\ workers'[w].pc = "idle" /\ last'.op = "update_status"

\* C18: with workers that hold the lock of a calcjob from their read of its
\* status to their write, in every interleaving each persisted step is the
\* successor of the step persisted before it, or finalised with a failure;
\* each write is made on the step its worker has read, and the row holds what
\* was written.
C18_LockedWorkersLegal ==
    [][/\ \A pk \in Kept :
             statuses'[pk] # statuses[pk] => LegalTransition(statuses[pk], statuses'[pk])
       /\ \A w \in DOMAIN workers :
             Writes(w) =>
                /\ last'.pk = workers[w].pk
                /\ workers[w].seen = statuses[last'.pk].step
                /\ last'.before = workers[w].seen
                /\ statuses'[last'.pk].step = last'.arg.step
                /\ statuses'[last'.pk] # statuses[last'.pk]]_vars

\* a worker has written a status while another worker holds the lock of another
\* calcjob, and a calcjob has been advanced step by step to running
C18_Witness ==
    /\ last.op = "update_status"
    /\ \E w \in DOMAIN workers : workers[w].pc = "holding" /\ workers[w].pk # last.pk
    /\ \E pk \in DOMAIN statuses : statuses[pk].step = "running"

----------------------------------------------------------------------------
\* C19 as stated: in every reachable state a status whose step is finalised
\* and whose exception is absent has a job_id.
C19_SucceededHasJobId ==
    \A pk \in DOMAIN statuses :
        (statuses[pk].step = "finalised" /\ statuses[pk].exception = None)
           => statuses[pk].job_id # None

\* C19 as amended: an update that writes the step finalised is accepted on
\* every status, whatever its step, job_id and exception; it leaves the job_id
\* and the exception as they were unless it writes them too, so a status
\* finalised without an exception has a job_id only if one was written.
C19_FinalisedKeepsJobId ==
    [][\A pk \in Kept :
          (/\ last'.op = "update_status"
           /\ last'.pk = pk
           /\ "step" \in DOMAIN last'.arg
           /\ last'.arg.step = "finalised") =>
             /\ statuses'[pk].step = "finalised"
             /\ statuses'[pk].job_id =
                   IF "job_id" \in DOMAIN last'.arg THEN last'.arg.job_id
                   ELSE statuses[pk].job_id
             /\ statuses'[pk].exception =
                   IF "exception" \in DOMAIN last'.arg THEN last'.arg.exception
                   ELSE statuses[pk].exception]_vars

\* a status finalised from retrieving, with no exception and no job_id
C19_Witness ==
    /\ last.op = "update_status"
    /\ last.arg = [step |-> "finalised"]
    /\ last.before = "retrieving"
    /\ statuses[last.pk].step = "finalised"
    /\ statuses[last.pk].exception = None
    /\ statuses[last.pk].job_id = None

====
